---- MODULE Spec2Model ----
(***************************************************************************)
(* Model of flight_price_tracker: the in-memory flight catalog of          *)
(* FlightModel (models/flight_model.py) fed by the two upstream calls of   *)
(* utils/flight_utils.py.                                                  *)
(*                                                                         *)
(* Python strings are sequences of one-character strings, so that          *)
(* float(), str.split() and the f-string price formatting are computed     *)
(* character by character.  Python dicts are records; a key that is absent *)
(* from a dict is a field absent from the record's DOMAIN.  Prices are     *)
(* carried as integers in thousandths of a currency unit.                  *)
(***************************************************************************)
EXTENDS Integers, Sequences, FiniteSets, TLC

VARIABLES flights, last, users

vars == <<flights, last, users>>

(***************************************************************************)
(* Bounds of the model.                                                    *)
(***************************************************************************)
MaxFlights == 2
MaxBatch == 2
MaxCatalog == 3

(***************************************************************************)
(* String literals.                                                        *)
(***************************************************************************)
None == <<"None">>
EmptyStr == <<>>
AA == <<"A", "A">>
aa == <<"a", "a">>
DL == <<"D", "L">>
JFK == <<"J", "F", "K">>
jfk == <<"j", "f", "k">>
LAX == <<"L", "A", "X">>
lax == <<"l", "a", "x">>
ORD == <<"O", "R", "D">>
USD == <<"U", "S", "D">>
EUR == <<"E", "U", "R">>
GBP == <<"G", "B", "P">>
Date1 == <<"2", "0", "2", "4", "-", "1", "2", "-", "0", "1">>
Date2 == <<"2", "0", "2", "4", "-", "1", "2", "-", "1", "0">>
T200_00 == <<"2", "0", "0", ".", "0", "0">>
T200_0 == <<"2", "0", "0", ".", "0">>
T200_004 == <<"2", "0", "0", ".", "0", "0", "4">>
T150_00 == <<"1", "5", "0", ".", "0", "0">>
T100_00 == <<"1", "0", "0", ".", "0", "0">>
Tabc == <<"a", "b", "c">>

(***************************************************************************)
(* Outcome of evaluating a Python expression: a value, or a raised         *)
(* exception named by its class.                                           *)
(***************************************************************************)
Ok(v) == [ok |-> TRUE, exc |-> "", val |-> v]
Err(e) == [ok |-> FALSE, exc |-> e, val |-> <<>>]

\* d[k] on a dict: KeyError when the key is absent.
GetKey(d, k) == IF k \in DOMAIN d THEN Ok(d[k]) ELSE Err("KeyError")

\* s[0] on a list: IndexError when the list is empty.
First(s) == IF Len(s) = 0 THEN Err("IndexError") ELSE Ok(s[1])

\* s[-1] on a list: IndexError when the list is empty.
LastOf(s) == IF Len(s) = 0 THEN Err("IndexError") ELSE Ok(s[Len(s)])

(***************************************************************************)
(* float(token) for decimal literals: digits with at most one point.       *)
(* Any other token of the model's alphabet raises ValueError.              *)
(***************************************************************************)
Digits == <<"0", "1", "2", "3", "4", "5", "6", "7", "8", "9">>

IsDigit(c) == \E i \in 1..10 : Digits[i] = c

DigitVal(c) == (CHOOSE i \in 1..10 : Digits[i] = c) - 1

AllDigits(s) == \A i \in 1..Len(s) : IsDigit(s[i])

RECURSIVE NatOf(_)
NatOf(s) == IF Len(s) = 0 THEN 0
            ELSE 10 * NatOf(SubSeq(s, 1, Len(s) - 1)) + DigitVal(s[Len(s)])

PointAt(s) == IF \E i \in 1..Len(s) : s[i] = "."
              THEN CHOOSE i \in 1..Len(s) : s[i] = "." /\ \A j \in 1..(i - 1) : s[j] # "."
              ELSE 0

\* The fraction digits read as thousandths (digits past the third are cut).
FracMilli(f) ==
    LET d(i) == IF i <= Len(f) THEN DigitVal(f[i]) ELSE 0
    IN  100 * d(1) + 10 * d(2) + d(3)

ParseFloat(tok) ==
    LET p == PointAt(tok)
        int == IF p = 0 THEN tok ELSE SubSeq(tok, 1, p - 1)
        frac == IF p = 0 THEN <<>> ELSE SubSeq(tok, p + 1, Len(tok))
    IN  IF AllDigits(int) /\ AllDigits(frac) /\ Len(int) + Len(frac) > 0
        THEN Ok(1000 * NatOf(int) + FracMilli(frac))
        ELSE Err("ValueError")

(***************************************************************************)
(* f"{price:.2f}": the amount rounded to cents, two fraction digits.       *)
(***************************************************************************)
RECURSIVE NatStr(_)
NatStr(n) == IF n < 10 THEN <<Digits[n + 1]>>
             ELSE NatStr(n \div 10) \o <<Digits[(n % 10) + 1]>>

Format2f(milli) ==
    LET cents == (milli + 5) \div 10
    IN  NatStr(cents \div 100) \o <<".">>
          \o <<Digits[((cents \div 10) % 10) + 1], Digits[(cents % 10) + 1]>>

(***************************************************************************)
(* str.split(): the whitespace-separated tokens of a string.               *)
(***************************************************************************)
IsSpace(c) == c = " "

RECURSIVE SplitFrom(_, _, _)
SplitFrom(s, i, cur) ==
    IF i > Len(s) THEN (IF Len(cur) = 0 THEN <<>> ELSE <<cur>>)
    ELSE IF IsSpace(s[i])
         THEN (IF Len(cur) = 0 THEN <<>> ELSE <<cur>>) \o SplitFrom(s, i + 1, <<>>)
         ELSE SplitFrom(s, i + 1, Append(cur, s[i]))

Split(s) == SplitFrom(s, 1, <<>>)

(***************************************************************************)
(* Upstream offers.  Offer1 is the sample offer of the test suite; the     *)
(* others vary the fields search_flights reads.                            *)
(***************************************************************************)
Seg(carrier, dep, arr) ==
    [carrierCode |-> carrier, departure |-> [iataCode |-> dep], arrival |-> [iataCode |-> arr]]

\* One-way AA JFK-LAX, "200.00" USD.
Offer1 == [itineraries |-> <<[segments |-> <<Seg(AA, JFK, LAX)>>]>>,
           price |-> [grandTotal |-> T200_00, currency |-> USD]]

\* Two segments AA JFK-LAX, DL LAX-ORD; total "200.0", no currency key.
Offer2 == [itineraries |-> <<[segments |-> <<Seg(AA, JFK, LAX), Seg(DL, LAX, ORD)>>]>>,
           price |-> [grandTotal |-> T200_0]]

\* Lower-case codes, total "200.004", priced in EUR.
Offer3 == [itineraries |-> <<[segments |-> <<Seg(aa, jfk, lax)>>]>>,
           price |-> [grandTotal |-> T200_004, currency |-> EUR]]

\* Round trip DL JFK-LAX, LAX-JFK: two itineraries.
Offer4 == [itineraries |-> <<[segments |-> <<Seg(DL, JFK, LAX)>>],
                             [segments |-> <<Seg(DL, LAX, JFK)>>]>>,
           price |-> [grandTotal |-> T150_00, currency |-> USD]]

\* No price block.
Offer5 == [itineraries |-> <<[segments |-> <<Seg(AA, JFK, LAX)>>]>>]

\* Price total that is not a number.
Offer6 == [itineraries |-> <<[segments |-> <<Seg(DL, JFK, LAX)>>]>>,
           price |-> [grandTotal |-> Tabc, currency |-> USD]]

\* Empty itinerary list.
Offer7 == [itineraries |-> <<>>,
           price |-> [grandTotal |-> T150_00, currency |-> USD]]

Offers == {Offer1, Offer2, Offer3, Offer4, Offer5, Offer6, Offer7}

RECURSIVE SeqsUpTo(_, _)
SeqsUpTo(S, n) ==
    IF n = 0 THEN {<<>>}
    ELSE LET shorter == SeqsUpTo(S, n - 1)
         IN  shorter \cup {Append(b, x) : b \in {c \in shorter : Len(c) = n - 1}, x \in S}

Batches == SeqsUpTo(Offers, MaxBatch)

\* The JSON payloads get_flight_offers can return: with or without "data".
Responses == {[data |-> b] : b \in Batches} \cup {[errors |-> <<>>]}

\* fetch_token(): a bearer token, or one of the exceptions it raises.
TokenFailures == {Err("EnvironmentError"), Err("RequestException"), Err("ValueError")}

\* get_flight_offers(): response.json(), or the re-raised RequestException.
OfferOutcomes == {Ok(r) : r \in Responses} \cup {Err("RequestException")}

\* What the two upstream calls do during one search: the token call fails and
\* the offer call is not made, or the token call succeeds and the offer call
\* returns or raises.
NotCalled == Err("not_called")

Upstream ==
    {<<t, NotCalled>> : t \in TokenFailures} \cup {<<Ok(<<"t">>), o>> : o \in OfferOutcomes}

\* The calls search_flights receives: origin, destination, dates.
Query(o, d, dep, ret) ==
    [origin |-> o, destination |-> d, departure_date |-> dep, return_date |-> ret]

Queries == {Query(JFK, LAX, Date1, Date2), Query(EmptyStr, LAX, Date1, None),
            Query(JFK, EmptyStr, Date1, None)}

(***************************************************************************)
(* FlightModel.search_flights                                              *)
(***************************************************************************)
Bind(r, F(_)) == IF r.ok THEN F(r.val) ELSE r

Itineraries(offer) == GetKey(offer, "itineraries")

Segments(itinerary) == GetKey(itinerary, "segments")

\* offer["itineraries"][0]["segments"][0]
FirstSegment(offer) == Bind(Bind(Bind(Itineraries(offer), First), Segments), First)

\* offer["itineraries"][-1]["segments"][-1]
LastSegment(offer) == Bind(Bind(Bind(Itineraries(offer), LastOf), Segments), LastOf)

\* offer["itineraries"][0]["segments"][0]["carrierCode"]
CarrierCode(offer) == Bind(FirstSegment(offer), LAMBDA s : GetKey(s, "carrierCode"))

\* float(offer["price"]["grandTotal"])
GrandTotal(offer) ==
    Bind(Bind(GetKey(offer, "price"), LAMBDA p : GetKey(p, "grandTotal")), ParseFloat)

\* offer["itineraries"][0]["segments"][0]["departure"]["iataCode"]
Origin(offer) ==
    Bind(Bind(FirstSegment(offer), LAMBDA s : GetKey(s, "departure")),
         LAMBDA a : GetKey(a, "iataCode"))

\* offer["itineraries"][-1]["segments"][-1]["arrival"]["iataCode"]
Destination(offer) ==
    Bind(Bind(LastSegment(offer), LAMBDA s : GetKey(s, "arrival")),
         LAMBDA a : GetKey(a, "iataCode"))

FlightKey(airline, price) == <<airline, price>>

\* f"{price:.2f} USD"
PriceString(price) == Format2f(price) \o <<" ">> \o USD

Flight(airline, origin, destination, q, price) ==
    [airline |-> airline, origin |-> origin, destination |-> destination,
     departureDate |-> q.departure_date, returnDate |-> q.return_date,
     price |-> PriceString(price)]

\* The numeric (airline, price) pair of a stored record.
StoredPair(flight) ==
    <<flight.airline, ParseFloat(Split(flight.price)[1]).val>>

\* Variant of UniqueFlights: the dedup set seeded with the stored pairs.
SeenInCatalog(stored) == {StoredPair(stored[i]) : i \in 1..Len(stored)}

\* unique_flights = set()
UniqueFlights(stored) == {}

\* Variant of KeyIsNew: no deduplication.
AlwaysNew(flight_key, unique_flights) == TRUE

\* if flight_key not in unique_flights
KeyIsNew(flight_key, unique_flights) == flight_key \notin unique_flights

Raised(exc, new_flights) == [status |-> "raised", exc |-> exc, new_flights |-> new_flights]

\* for offer in response.get("data", []): ...
RECURSIVE OfferLoop(_, _, _, _, _)
OfferLoop(data, i, unique_flights, new_flights, q) ==
    IF i > Len(data)
    THEN [status |-> "ok", exc |-> "", new_flights |-> new_flights]
    ELSE LET offer == data[i]
             airline == CarrierCode(offer)
             price == GrandTotal(offer)
         IN  IF ~airline.ok THEN Raised(airline.exc, new_flights)
             ELSE IF ~price.ok THEN Raised(price.exc, new_flights)
             ELSE LET flight_key == FlightKey(airline.val, price.val)
                  IN  IF ~KeyIsNew(flight_key, unique_flights)
                      THEN OfferLoop(data, i + 1, unique_flights, new_flights, q)
                      ELSE LET origin == Origin(offer)
                               destination == Destination(offer)
                           IN  IF ~origin.ok THEN Raised(origin.exc, new_flights)
                               ELSE IF ~destination.ok
                                    THEN Raised(destination.exc, new_flights)
                               ELSE OfferLoop(data, i + 1,
                                              unique_flights \cup {flight_key},
                                              Append(new_flights,
                                                     Flight(airline.val, origin.val,
                                                            destination.val, q, price.val)),
                                              q)

\* response.get("data", [])
DataOf(response) == IF "data" \in DOMAIN response THEN response.data ELSE <<>>

\* Variant of Extend: the new records put before the stored ones.
ExtendFront(stored, new_flights) == new_flights \o stored

\* self.flights.extend(new_flights)
Extend(stored, new_flights) == stored \o new_flights

\* Variant of StoredOnFailure: the records built before the failure are kept.
KeepPartial(stored, new_flights) == stored \o new_flights

\* except Exception: log and re-raise; self.flights is not written.
StoredOnFailure(stored, new_flights) == stored

\* Lines 60-66: extend and return on success, log and re-raise on failure.
Finish(stored, data, run) ==
    IF run.status = "ok"
    THEN [flights |-> Extend(stored, run.new_flights), token |-> "ok",
          upstream |-> "ok", data |-> data, status |-> "ok", exc |-> "",
          ret |-> run.new_flights]
    ELSE [flights |-> StoredOnFailure(stored, run.new_flights), token |-> "ok",
          upstream |-> "ok", data |-> data, status |-> "raised",
          exc |-> run.exc, ret |-> <<>>]

\* The whole method: the catalog it leaves and what the caller gets.
search_flights(stored, q, token, offers) ==
    IF ~token.ok
    THEN [flights |-> stored, token |-> token.exc, upstream |-> "not_called",
          data |-> <<>>, status |-> "raised", exc |-> token.exc, ret |-> <<>>]
    ELSE IF ~offers.ok
    THEN [flights |-> stored, token |-> "ok", upstream |-> offers.exc,
          data |-> <<>>, status |-> "raised", exc |-> offers.exc, ret |-> <<>>]
    ELSE Finish(stored, DataOf(offers.val),
                OfferLoop(DataOf(offers.val), 1, UniqueFlights(stored), <<>>, q))

(***************************************************************************)
(* FlightModel.filter_by_price_range                                       *)
(***************************************************************************)
\* float(flight['price'].split()[0])
PriceValue(flight) ==
    Bind(Bind(Bind(GetKey(flight, "price"), LAMBDA p : Ok(Split(p))), First), ParseFloat)

\* Variant of InRange: the upper bound excluded.
BelowMax(min_price, price_value, max_price) ==
    min_price <= price_value /\ price_value < max_price

\* if min_price <= price_value <= max_price
InRange(min_price, price_value, max_price) ==
    min_price <= price_value /\ price_value <= max_price

RECURSIVE PriceLoop(_, _, _, _, _)
PriceLoop(stored, i, min_price, max_price, filtered_flights) ==
    IF i > Len(stored)
    THEN [status |-> "ok", exc |-> "", ret |-> filtered_flights]
    ELSE LET price_value == PriceValue(stored[i])
         IN  IF ~price_value.ok
             THEN [status |-> "raised", exc |-> price_value.exc, ret |-> <<>>]
             ELSE PriceLoop(stored, i + 1, min_price, max_price,
                            IF InRange(min_price, price_value.val, max_price)
                            THEN Append(filtered_flights, stored[i])
                            ELSE filtered_flights)

filter_by_price_range(stored, min_price, max_price) ==
    PriceLoop(stored, 1, min_price, max_price, <<>>)

\* The min/max arguments tried, in thousandths.
PriceArgs == {100000, 150000, 200000}

(***************************************************************************)
(* FlightModel.clear_flights                                               *)
(***************************************************************************)
\* Variant of clear_flights: the catalog is left as it is.
KeepStored(stored) == stored

\* self.flights = []
clear_flights(stored) == <<>>

(***************************************************************************)
(* FlightModel.filter_by_airline and FlightModel.filter_by_origin          *)
(***************************************************************************)
LowerLetters == <<"a", "b", "c", "d", "e", "f", "g", "h", "i", "j", "k", "l", "m",
                  "n", "o", "p", "q", "r", "s", "t", "u", "v", "w", "x", "y", "z">>

UpperLetters == <<"A", "B", "C", "D", "E", "F", "G", "H", "I", "J", "K", "L", "M",
                  "N", "O", "P", "Q", "R", "S", "T", "U", "V", "W", "X", "Y", "Z">>

UpperChar(c) ==
    IF \E i \in 1..Len(LowerLetters) : LowerLetters[i] = c
    THEN UpperLetters[CHOOSE i \in 1..Len(LowerLetters) : LowerLetters[i] = c]
    ELSE c

\* str.upper()
Upper(s) == [i \in 1..Len(s) |-> UpperChar(s[i])]

\* for flight in self.flights: if flight[field] == code.upper(): append
RECURSIVE FieldLoop(_, _, _, _, _)
FieldLoop(stored, i, field, code, filtered_flights) ==
    IF i > Len(stored)
    THEN [status |-> "ok", exc |-> "", ret |-> filtered_flights]
    ELSE LET value == GetKey(stored[i], field)
         IN  IF ~value.ok
             THEN [status |-> "raised", exc |-> value.exc, ret |-> <<>>]
             ELSE FieldLoop(stored, i + 1, field, code,
                            IF value.val = Upper(code)
                            THEN Append(filtered_flights, stored[i])
                            ELSE filtered_flights)

filter_by_airline(stored, airline_code) == FieldLoop(stored, 1, "airline", airline_code, <<>>)

filter_by_origin(stored, origin_code) == FieldLoop(stored, 1, "origin", origin_code, <<>>)

\* The carrier and airport codes the filters are asked for.
AirlineCodes == {AA, aa, DL}

OriginCodes == {JFK, jfk}

(***************************************************************************)
(* State machine.  flights is FlightModel.flights; last is the latest call *)
(* and what its caller observed.                                           *)
(***************************************************************************)
Call(op) ==
    [op |-> op, origin |-> EmptyStr, destination |-> EmptyStr, token |-> "not_called",
     upstream |-> "not_called", data |-> <<>>, min_price |-> 0, max_price |-> 0,
     code |-> EmptyStr, username |-> EmptyStr, password |-> <<>>, candidate |-> <<>>,
     new_password |-> <<>>, verified |-> FALSE, http |-> 0,
     status |-> "ok", exc |-> "", msg |-> "", ret |-> <<>>]

\* FlightModel.__init__
Init ==
    /\ flights = <<>>
    /\ last = Call("init")
    /\ users = <<>>

SearchFlights(q, token, offers) ==
    /\ Len(flights) + (IF offers.ok THEN Len(DataOf(offers.val)) ELSE 0) <= MaxFlights
    /\ \E r \in {search_flights(flights, q, token, offers)} :
        /\ flights' = r.flights
        /\ last' = [Call("search_flights") EXCEPT
                      !.origin = q.origin, !.destination = q.destination,
                      !.token = r.token, !.upstream = r.upstream, !.data = r.data,
                      !.status = r.status, !.exc = r.exc, !.ret = r.ret]
    /\ UNCHANGED users

GetFlights ==
    /\ last' = [Call("get_flights") EXCEPT !.ret = flights]
    /\ UNCHANGED <<flights, users>>

ClearFlights ==
    /\ flights' = clear_flights(flights)
    /\ last' = Call("clear_flights")
    /\ UNCHANGED users

FilterByAirline(airline_code) ==
    /\ \E r \in {filter_by_airline(flights, airline_code)} :
           last' = [Call("filter_by_airline") EXCEPT
                      !.code = airline_code,
                      !.status = r.status, !.exc = r.exc, !.ret = r.ret]
    /\ UNCHANGED <<flights, users>>

FilterByOrigin(origin_code) ==
    /\ \E r \in {filter_by_origin(flights, origin_code)} :
           last' = [Call("filter_by_origin") EXCEPT
                      !.code = origin_code,
                      !.status = r.status, !.exc = r.exc, !.ret = r.ret]
    /\ UNCHANGED <<flights, users>>

FilterByPriceRange(min_price, max_price) ==
    /\ \E r \in {filter_by_price_range(flights, min_price, max_price)} :
           last' = [Call("filter_by_price_range") EXCEPT
                      !.min_price = min_price, !.max_price = max_price,
                      !.status = r.status, !.exc = r.exc, !.ret = r.ret]
    /\ UNCHANGED <<flights, users>>

Next ==
    \/ \E q \in Queries, up \in Upstream : SearchFlights(q, up[1], up[2])
    \/ GetFlights
    \/ ClearFlights
    \/ \E min_price \in PriceArgs, max_price \in PriceArgs :
           FilterByPriceRange(min_price, max_price)
    \/ \E airline_code \in AirlineCodes : FilterByAirline(airline_code)
    \/ \E origin_code \in OriginCodes : FilterByOrigin(origin_code)

Spec == Init /\ [][Next]_vars

(***************************************************************************)
(* The price filter on catalogs assigned directly to FlightModel.flights,  *)
(* as the test suite does: records with id, price and airline, the price   *)
(* strings including other currencies and malformed ones.                  *)
(***************************************************************************)
TestPrices ==
    {T100_00 \o <<" ">> \o USD, T150_00 \o <<" ">> \o USD, T200_00 \o <<" ">> \o USD,
     T150_00 \o <<" ">> \o EUR, T200_00 \o <<" ">> \o GBP,
     EmptyStr, Tabc \o <<" ">> \o USD}

TestCatalogs ==
    {[i \in 1..Len(ps) |-> [id |-> NatStr(i), price |-> ps[i], airline |-> AA]] :
        ps \in SeqsUpTo(TestPrices, MaxCatalog)}

InitFilter ==
    /\ flights \in TestCatalogs
    /\ last = Call("init")
    /\ users = <<>>

NextFilter ==
    \E min_price \in PriceArgs, max_price \in PriceArgs :
        FilterByPriceRange(min_price, max_price)

SpecFilter == InitFilter /\ [][NextFilter]_vars

(***************************************************************************)
(* Passwords (utils/password_utils.py).  A password is a sequence of       *)
(* Unicode code points, bytes are integers 0..255.                         *)
(***************************************************************************)
\* os.urandom(32)
SaltLen == 32

\* The iteration count passed to pbkdf2_hmac.
Iterations == 100000

\* The block size of HMAC-SHA256, in bytes.
BlockSize == 64

\* One code point in UTF-8; a lone surrogate cannot be encoded.
Utf8Char(cp) ==
    IF cp < 128 THEN Ok(<<cp>>)
    ELSE IF cp < 2048 THEN Ok(<<192 + (cp \div 64), 128 + (cp % 64)>>)
    ELSE IF cp \in 55296..57343 THEN Err("UnicodeEncodeError")
    ELSE IF cp < 65536
         THEN Ok(<<224 + (cp \div 4096), 128 + ((cp \div 64) % 64), 128 + (cp % 64)>>)
    ELSE Ok(<<240 + (cp \div 262144), 128 + ((cp \div 4096) % 64),
              128 + ((cp \div 64) % 64), 128 + (cp % 64)>>)

\* password.encode('utf-8')
RECURSIVE Utf8Encode(_)
Utf8Encode(password) ==
    IF Len(password) = 0 THEN Ok(<<>>)
    ELSE LET head == Utf8Char(password[1])
             rest == Utf8Encode(Tail(password))
         IN  IF ~head.ok THEN head
             ELSE IF ~rest.ok THEN rest
             ELSE Ok(head.val \o rest.val)

\* The key block HMAC works with: the key bytes padded with zero bytes to the
\* block size.  (A key longer than the block is replaced by its digest first;
\* the passwords of this model are shorter.)
HmacKey(key) == [i \in 1..BlockSize |-> IF i <= Len(key) THEN key[i] ELSE 0]

\* hashlib.pbkdf2_hmac('sha256', password, salt, iterations): the derived key
\* as a term over what the derivation reads, the HMAC key block, the salt and
\* the iteration count; different terms stand for different digests.
Pbkdf2HmacSha256(password, salt, iterations) ==
    [key |-> HmacKey(password), salt |-> salt, iterations |-> iterations]

hash_password(password, salt) ==
    Bind(Utf8Encode(password), LAMBDA b : Ok(Pbkdf2HmacSha256(b, salt, Iterations)))

\* return hash_password(provided_password, stored_salt) == stored_password
verify_password(stored_password, stored_salt, provided_password) ==
    Bind(hash_password(provided_password, stored_salt),
         LAMBDA h : Ok(h = stored_password))

\* The salts generate_salt() is taken to return.
Salts == {[i \in 1..SaltLen |-> b] : b \in {1, 2}}

\* "pw", "pw" followed by U+0000, U+00E9, a lone surrogate U+D800, and "".
PwPlain == <<112, 119>>
PwNul == <<112, 119, 0>>
PwAccent == <<233>>
PwSurrogate == <<55296>>
PwEmpty == <<>>

Passwords == {PwPlain, PwNul, PwAccent, PwSurrogate, PwEmpty}

Alice == <<"a", "l", "i", "c", "e">>
Bob == <<"b", "o", "b">>

Usernames == {Alice, Bob}

(***************************************************************************)
(* The users table (models/login_model.py): rows in insertion order.       *)
(***************************************************************************)
\* User.query.filter_by(username=username).first(): the row's index, or 0.
FindUser(table, username) ==
    IF \E i \in 1..Len(table) : table[i].username = username
    THEN CHOOSE i \in 1..Len(table) : table[i].username = username
    ELSE 0

\* Variant of UsernameTaken: the unique constraint is not enforced.
NeverTaken(table, username) == FALSE

\* username = Column(String(50), unique=True, ...): what makes commit raise
\* IntegrityError.
UsernameTaken(table, username) == FindUser(table, username) # 0

\* User.create_user: the table it leaves and what the caller gets.
create_user(table, username, password, salt) ==
    IF Len(password) = 0
    THEN [users |-> table, status |-> "raised", exc |-> "ValueError",
          msg |-> "Password cannot be empty"]
    ELSE LET hashed_password == hash_password(password, salt)
         IN  IF ~hashed_password.ok
             THEN [users |-> table, status |-> "raised", exc |-> hashed_password.exc,
                   msg |-> ""]
             ELSE IF UsernameTaken(table, username)
             THEN [users |-> table, status |-> "raised", exc |-> "ValueError",
                   msg |-> "User with username already exists"]
             ELSE [users |-> Append(table, [id |-> Len(table) + 1, username |-> username,
                                            salt |-> salt,
                                            hashed_password |-> hashed_password.val]),
                   status |-> "ok", exc |-> "", msg |-> ""]

(***************************************************************************)
(* The update-password route (app.py).                                     *)
(***************************************************************************)
Response(table, http) == [users |-> table, status |-> "ok", exc |-> "", http |-> http]

\* Lines 160-172: hash the new password, assign, commit; roll back on failure.
StoreNewPassword(table, i, new_password, new_salt, commit_ok) ==
    LET new_hashed_password == hash_password(new_password, new_salt)
    IN  IF ~new_hashed_password.ok \/ ~commit_ok
        THEN Response(table, 500)
        ELSE Response([table EXCEPT ![i].salt = new_salt,
                                    ![i].hashed_password = new_hashed_password.val], 200)

update_password(table, username, current_password, new_password, new_salt, commit_ok) ==
    IF Len(username) = 0 \/ Len(current_password) = 0 \/ Len(new_password) = 0
    THEN Response(table, 400)
    ELSE LET i == FindUser(table, username)
         IN  IF i = 0 THEN Response(table, 404)
             ELSE LET verified == verify_password(table[i].hashed_password, table[i].salt,
                                                  current_password)
                  IN  IF ~verified.ok
                      THEN [users |-> table, status |-> "raised", exc |-> verified.exc,
                            http |-> 0]
                      ELSE IF ~verified.val THEN Response(table, 401)
                      ELSE StoreNewPassword(table, i, new_password, new_salt, commit_ok)

(***************************************************************************)
(* State machine of the accounts.                                          *)
(***************************************************************************)
CreateUser(username, password, salt) ==
    /\ \E r \in {create_user(users, username, password, salt)} :
        /\ users' = r.users
        /\ last' = [Call("create_user") EXCEPT
                      !.username = username, !.password = password,
                      !.status = r.status, !.exc = r.exc, !.msg = r.msg]
    /\ UNCHANGED flights

UpdatePassword(username, current_password, new_password, new_salt, commit_ok) ==
    /\ \E r \in {update_password(users, username, current_password, new_password,
                                new_salt, commit_ok)} :
        /\ users' = r.users
        /\ last' = [Call("update_password") EXCEPT
                      !.username = username, !.password = current_password,
                      !.new_password = new_password,
                      !.status = r.status, !.exc = r.exc, !.http = r.http]
    /\ UNCHANGED flights

\* verify_password on the hash and salt of a password, as the tests call it.
VerifyPassword(password, salt, candidate) ==
    /\ hash_password(password, salt).ok
    /\ \E r \in {verify_password(hash_password(password, salt).val, salt, candidate)} :
        last' = [Call("verify_password") EXCEPT
                   !.password = password, !.candidate = candidate,
                   !.status = IF r.ok THEN "ok" ELSE "raised", !.exc = r.exc,
                   !.verified = r.ok /\ r.val]
    /\ UNCHANGED <<flights, users>>

NextAccounts ==
    \/ \E username \in Usernames, password \in Passwords, salt \in Salts :
           CreateUser(username, password, salt)
    \/ \E username \in Usernames \cup {EmptyStr}, current_password \in Passwords,
          new_password \in Passwords, new_salt \in Salts, commit_ok \in BOOLEAN :
           UpdatePassword(username, current_password, new_password, new_salt, commit_ok)
    \/ \E password \in Passwords, salt \in Salts, candidate \in Passwords :
           VerifyPassword(password, salt, candidate)

SpecAccounts == Init /\ [][NextAccounts]_vars

(***************************************************************************)
(* Properties.                                                             *)
(***************************************************************************)
IsSearch(call) == call.op = "search_flights"

IsPriceFilter(call) == call.op = "filter_by_price_range"

\* The (airline, numeric price) pair of an upstream offer.
OfferPair(offer) == FlightKey(CarrierCode(offer).val, GrandTotal(offer).val)

\* The record is the one the fields of this offer give.
BuiltFrom(flight, offer) ==
    /\ flight.airline = CarrierCode(offer).val
    /\ flight.origin = Origin(offer).val
    /\ flight.destination = Destination(offer).val
    /\ flight.price = PriceString(GrandTotal(offer).val)

\* The positions of a batch that hold the first offer with their pair.
FirstOccurrences(data) ==
    {i \in 1..Len(data) : \A j \in 1..(i - 1) : OfferPair(data[j]) # OfferPair(data[i])}

\* The n-th smallest element of a set of positions.
Nth(S, n) == CHOOSE i \in S : Cardinality({j \in S : j < i}) = n - 1

\* Every field search_flights reads from the offer is there and the total parses.
WellFormed(offer) ==
    /\ CarrierCode(offer).ok
    /\ GrandTotal(offer).ok
    /\ Origin(offer).ok
    /\ Destination(offer).ok

\* C1: a successful search_flights leaves the catalog equal to the catalog
\* before the call followed by the returned list; the returned list is the
\* newly appended records only.
C1_SearchAppendsReturned ==
    [][(IsSearch(last') /\ last'.status = "ok") => flights' = flights \o last'.ret]_vars

\* C1 happens: a successful search returned records and the catalog already
\* held records before it.
C1_Witness ==
    /\ IsSearch(last)
    /\ last.status = "ok"
    /\ Len(last.ret) > 0
    /\ Len(flights) > Len(last.ret)

\* C2: after a successful search_flights the returned list holds one record
\* per (airline, numeric price) pair of the batch, built from the first offer
\* with that pair, in offer order, and these are the records at the end of
\* the catalog.
C2_OneRecordPerPair ==
    (IsSearch(last) /\ last.status = "ok") =>
        LET firsts == FirstOccurrences(last.data)
        IN  /\ Len(last.ret) = Cardinality(firsts)
            /\ \A n \in 1..Len(last.ret) :
                   BuiltFrom(last.ret[n], last.data[Nth(firsts, n)])
            /\ Len(flights) >= Len(last.ret)
            /\ \A n \in 1..Len(last.ret) :
                   flights[Len(flights) - Len(last.ret) + n] = last.ret[n]

\* C2 happens: a batch held two offers with the same pair that give different
\* records, and the search returned fewer records than offers.
C2_Witness ==
    /\ IsSearch(last)
    /\ last.status = "ok"
    /\ \E i, j \in 1..Len(last.data) :
           /\ i < j
           /\ OfferPair(last.data[i]) = OfferPair(last.data[j])
           /\ Destination(last.data[i]).val # Destination(last.data[j]).val
    /\ Len(last.ret) < Len(last.data)

\* C3: a successful search_flights appends a record for an offer whose
\* (airline, numeric price) pair is already the pair of a stored record.
C3_NoDedupAgainstCatalog ==
    [][(IsSearch(last') /\ last'.status = "ok") =>
          \A i \in 1..Len(last'.data) :
              OfferPair(last'.data[i]) \in SeenInCatalog(flights) =>
                  \E n \in (Len(flights) + 1)..Len(flights') :
                      StoredPair(flights'[n]) = OfferPair(last'.data[i])]_vars

\* C3 happens: the catalog holds two records with the same pair, the second
\* appended by a later search than the first.
C3_Witness ==
    /\ IsSearch(last)
    /\ last.status = "ok"
    /\ Len(last.ret) = 1
    /\ Len(flights) = 2
    /\ StoredPair(flights[1]) = StoredPair(flights[2])

\* C4: a failing upstream call makes search_flights raise that failure, and a
\* search_flights that raises leaves the catalog as it was.
C4_FailedSearchNotApplied ==
    [][IsSearch(last') =>
          /\ last'.token # "ok" => (last'.status = "raised" /\ last'.exc = last'.token)
          /\ last'.upstream \notin {"ok", "not_called"} =>
                 (last'.status = "raised" /\ last'.exc = last'.upstream)
          /\ last'.status = "raised" => (last'.exc # "" /\ flights' = flights)]_vars

\* C4 happens: the search raised on a later offer after the first offer of
\* the batch had been processed into a record.
C4_Witness ==
    /\ IsSearch(last)
    /\ last.status = "raised"
    /\ last.upstream = "ok"
    /\ Len(last.data) >= 2
    /\ WellFormed(last.data[1])

\* C5: when the batch holds an offer that fails normalization, search_flights
\* raises nothing, and returns one record per pair of the well-formed offers.
C5_InvalidOfferDropped ==
    (IsSearch(last) /\ last.upstream = "ok") =>
        LET valid == SelectSeq(last.data, WellFormed)
            firsts == FirstOccurrences(valid)
        IN  /\ last.status = "ok"
            /\ Len(last.ret) = Cardinality(firsts)
            /\ \A n \in 1..Len(last.ret) : BuiltFrom(last.ret[n], valid[Nth(firsts, n)])

\* C6: no record of the catalog has its origin equal to its destination.
C6_OriginDiffersFromDestination ==
    \A n \in 1..Len(flights) : flights[n].origin # flights[n].destination

\* C7: search_flights with an empty origin or destination raises ValueError
\* and leaves the catalog unchanged.
C7_EmptyArgumentRejected ==
    [][(IsSearch(last') /\ (last'.origin = EmptyStr \/ last'.destination = EmptyStr)) =>
          /\ last'.status = "raised"
          /\ last'.exc = "ValueError"
          /\ flights' = flights]_vars

\* The currency suffix of a stored price is there and is not USD.
NonUSD(flight) ==
    LET t == Split(flight.price)
    IN  Len(t) >= 2 /\ t[2] # USD

\* The stored price is "<number> USD".
USDPriced(flight) ==
    LET t == Split(flight.price)
    IN  Len(t) = 2 /\ ParseFloat(t[1]).ok /\ t[2] = USD

\* The numeric amount of a stored price.
Amount(flight) == ParseFloat(Split(flight.price)[1]).val

\* C8: filter_by_price_range with min <= max returns no record priced in a
\* currency other than USD.
C8_NonUSDExcluded ==
    (IsPriceFilter(last) /\ last.min_price <= last.max_price) =>
        \A n \in 1..Len(last.ret) : ~NonUSD(last.ret[n])

\* C9: on a catalog of USD-priced records filter_by_price_range returns the
\* records with min <= amount <= max, in catalog order.
C9_InclusiveRange ==
    (IsPriceFilter(last) /\ \A n \in 1..Len(flights) : USDPriced(flights[n])) =>
        /\ last.status = "ok"
        /\ last.ret = SelectSeq(flights,
                                LAMBDA f : /\ last.min_price <= Amount(f)
                                           /\ Amount(f) <= last.max_price)

\* C9 happens: the filter returned a record priced exactly min and one priced
\* exactly max, and left a record out.
C9_Witness ==
    /\ IsPriceFilter(last)
    /\ \A n \in 1..Len(flights) : USDPriced(flights[n])
    /\ last.min_price < last.max_price
    /\ \E n \in 1..Len(last.ret) : Amount(last.ret[n]) = last.min_price
    /\ \E n \in 1..Len(last.ret) : Amount(last.ret[n]) = last.max_price
    /\ Len(last.ret) < Len(flights)

\* C10: filter_by_price_range raises nothing and returns the records with a
\* well-formed price in the range, whatever malformed prices the catalog holds.
C10_MalformedPriceSkipped ==
    IsPriceFilter(last) =>
        /\ last.status = "ok"
        /\ last.ret = SelectSeq(flights,
                                LAMBDA f : /\ PriceValue(f).ok
                                           /\ last.min_price <= PriceValue(f).val
                                           /\ PriceValue(f).val <= last.max_price)

IsClear(call) == call.op = "clear_flights"

\* C11: clear_flights leaves the catalog empty from any catalog, also from an
\* empty one, and a get_flights that follows it returns an empty sequence.
C11_ClearEmptiesCatalog ==
    [][/\ IsClear(last') => flights' = <<>>
       /\ (IsClear(last) /\ IsClear(last')) => flights' = flights
       /\ (IsClear(last) /\ last'.op = "get_flights") => last'.ret = <<>>]_vars

\* C11 happens: clear_flights has been called and the catalog is empty.
C11_Witness ==
    /\ IsClear(last)
    /\ flights = <<>>

\* C12: filter_by_airline and filter_by_origin return the records whose
\* airline (origin) equals the code when letter case is ignored, in catalog
\* order.
C12_CaseInsensitiveMatch ==
    /\ last.op = "filter_by_airline" =>
           /\ last.status = "ok"
           /\ last.ret = SelectSeq(flights, LAMBDA f : Upper(f.airline) = Upper(last.code))
    /\ last.op = "filter_by_origin" =>
           /\ last.status = "ok"
           /\ last.ret = SelectSeq(flights, LAMBDA f : Upper(f.origin) = Upper(last.code))

\* C13: every stored record has upper-case airline, origin and destination.
C13_CodesUppercase ==
    \A n \in 1..Len(flights) :
        /\ flights[n].airline = Upper(flights[n].airline)
        /\ flights[n].origin = Upper(flights[n].origin)
        /\ flights[n].destination = Upper(flights[n].destination)

\* The currency of the offer's price block, USD when it carries none.
OfferCurrency(offer) ==
    IF "currency" \in DOMAIN offer.price THEN offer.price.currency ELSE USD

\* C14: the price of every record search_flights returns is the offer's total
\* followed by the currency of the offer's price block (USD when absent).
C14_PriceCarriesOfferCurrency ==
    (IsSearch(last) /\ last.status = "ok") =>
        LET firsts == FirstOccurrences(last.data)
        IN  \A n \in 1..Len(last.ret) :
                last.ret[n].price =
                    Format2f(GrandTotal(last.data[Nth(firsts, n)]).val) \o <<" ">>
                        \o OfferCurrency(last.data[Nth(firsts, n)])

\* C15: a search whose upstream result holds no valid offer returns an empty
\* list and leaves the catalog unchanged, while an upstream failure raises.
C15_NoValidOffersReturnsEmpty ==
    [][IsSearch(last') =>
          /\ (last'.upstream = "ok" /\ \A i \in 1..Len(last'.data) : ~WellFormed(last'.data[i]))
                 => (last'.status = "ok" /\ last'.ret = <<>> /\ flights' = flights)
          /\ last'.upstream # "ok" => last'.status = "raised"]_vars

IsVerify(call) == call.op = "verify_password"

IsCreate(call) == call.op = "create_user"

IsUpdate(call) == call.op = "update_password"

UniqueUsernames(table) ==
    \A i, j \in 1..Len(table) : table[i].username = table[j].username => i = j

\* C16: verify_password on the hash and salt of a password p never raises and
\* returns true for the candidate p and false for every candidate other than p.
C16_VerifyTrueExactlyForPassword ==
    IsVerify(last) =>
        /\ last.status = "ok"
        /\ last.verified <=> (last.candidate = last.password)

\* C17 as stated: at most one user per username, and every create_user call
\* for a username that exists raises ValueError with the already-exists
\* message and leaves the table as it was.
C17_DuplicateAlwaysAlreadyExists ==
    [][/\ UniqueUsernames(users')
       /\ (IsCreate(last') /\ FindUser(users, last'.username) # 0) =>
              /\ last'.status = "raised"
              /\ last'.exc = "ValueError"
              /\ last'.msg = "User with username already exists"
              /\ users' = users]_vars

\* C17, amended: at most one user per username; every create_user call for a
\* username that exists raises and leaves the table, so the existing user's
\* salt and hash, as it was; the exception is ValueError with the
\* already-exists message when the password is non-empty and encodable, and
\* ValueError with the empty-password message when the password is empty.
C17_DuplicateRejected ==
    [][/\ UniqueUsernames(users')
       /\ (IsCreate(last') /\ FindUser(users, last'.username) # 0) =>
              /\ last'.status = "raised"
              /\ users' = users
              /\ (Len(last'.password) > 0 /\ Utf8Encode(last'.password).ok) =>
                     /\ last'.exc = "ValueError"
                     /\ last'.msg = "User with username already exists"
              /\ Len(last'.password) = 0 =>
                     /\ last'.exc = "ValueError"
                     /\ last'.msg = "Password cannot be empty"]_vars

C17_Witness ==
    /\ IsCreate(last)
    /\ FindUser(users, last.username) # 0
    /\ last.status = "raised"
    /\ last.msg = "User with username already exists"

\* C18: an update_password call that succeeds leaves the user with a hash of
\* the new password under the stored salt, so that the new password verifies
\* and the current password it was given, when different from the new one, no
\* longer does; a call that does not succeed leaves the table as it was.
C18_UpdateReplacesCredentials ==
    [][IsUpdate(last') =>
          LET i == FindUser(users, last'.username)
          IN  IF last'.status = "ok" /\ last'.http = 200
              THEN /\ i # 0
                   /\ Len(users') = Len(users)
                   /\ users'[i].hashed_password =
                          hash_password(last'.new_password, users'[i].salt).val
                   /\ verify_password(users'[i].hashed_password, users'[i].salt,
                                      last'.new_password) = Ok(TRUE)
                   /\ last'.password # last'.new_password =>
                          verify_password(users'[i].hashed_password, users'[i].salt,
                                          last'.password) = Ok(FALSE)
              ELSE users' = users]_vars

=============================================================================
